---- MODULE Spec2Model ----
(***************************************************************************)
(* A model of src/pytorch_bert.py: the batch sampler make_batch, the       *)
(* attention pad-mask builder, scaled dot-product attention, multi-head    *)
(* attention, the embedding composer, the encoder layer, the construction  *)
(* of BERT (weight sharing) and BERT.forward.                              *)
(*                                                                         *)
(* Python lists are sequences; Python positions are 0-based, so the token  *)
(* at Python position p of a list s is s[p + 1].                           *)
(***************************************************************************)
EXTENDS Integers, Sequences, FiniteSets, TLC

\* the hyperparameters and the corpus (lines 244-273)
VARIABLES batch_size, max_pred, token_list, n_heads, d_k, d_v, d_model

\* make_batch: its position, and its locals
VARIABLES mb_pc, batch, positive, negative, tokens_a_index, tokens_b_index

\* the model object: parameter storage and the two names bound to it
VARIABLES model_built, store, token_embedding_weight, decoder_weight, epoch

\* BERT.forward: its position, arguments, the local output, and its outcome;
\* the last two finished passes
VARIABLES fwd_pc, fwd_in, fwd_output, fwd_result, last_run, prev_run

\* the last direct call of a component (EmbeddingLayer, EncoderLayer,
\* MultiHeadAttention) and its outcome
VARIABLES call

\* get_attention_pad_mask: arguments and returned mask
VARIABLES pm_seq_q, pm_seq_k, pm_out

\* ScaledDotProductAttention.forward: its position, arguments and locals
VARIABLES sd_pc, sd_Q, sd_K, sd_V, sd_mask, scores, attn, context, sd_result

cfgvars == <<batch_size, max_pred, token_list, n_heads, d_k, d_v, d_model>>
mbvars == <<mb_pc, batch, positive, negative, tokens_a_index, tokens_b_index>>
paramvars == <<model_built, store, token_embedding_weight, decoder_weight, epoch>>
fwdvars == <<fwd_pc, fwd_in, fwd_output, fwd_result, last_run, prev_run>>
pmvars == <<pm_seq_q, pm_seq_k, pm_out>>
sdvars == <<sd_pc, sd_Q, sd_K, sd_V, sd_mask, scores, attn, context, sd_result>>

vars == <<cfgvars, mbvars, paramvars, fwdvars, call, pmvars, sdvars>>

(***************************************************************************)
(* Bounds.  maxlen is the hyperparameter of line 244 (30 there), scaled    *)
(* down so that sentence pairs longer than maxlen occur in small corpora;  *)
(* max_pred (line 246, 5 there) ranges over 1..MaxPred and batch_size      *)
(* (line 245, 6 there) over 1..MaxBatch.  The number of batches grows fast *)
(* with the tokens of the corpus and with batch_size: MaxWork and          *)
(* MaxLiveWork bound the square of batch_size times the number of tokens   *)
(* of the corpus (MaxLiveWork where fairness is checked).                  *)
(***************************************************************************)
maxlen == 6
MaxPred == 2
MaxBatch == 4
MaxWork == 36
MaxLiveWork == 4
MaxSentences == 3
\* batch and sequence length of the tensors passed to the model
MaxB == 2
MaxL == 2
\* n_heads, d_k = d_v and d_model (lines 248, 251, 249: 12, 64, 768 there)
MaxHeads == 2
MaxWidth == 2
MaxModel == 2
\* range(100) of line 285
MaxEpochs == 2
\* query and key lengths of one attention call
MaxLq == 2
MaxLk == 2

\* word_dict = {'[PAD]': 0, '[CLS]': 1, '[SEP]': 2, '[MASK]': 3}
PAD == 0
CLS == 1
SEP == 2
MASK == 3

Min(a, b) == IF a < b THEN a ELSE b
Max(a, b) == IF a > b THEN a ELSE b

\* Python's round() of n * 0.15: round half to even of 15n/100
Round15(n) ==
    LET q == (15 * n) \div 100
        r == (15 * n) % 100
    IN  IF r > 50 \/ (r = 50 /\ q % 2 = 1) THEN q + 1 ELSE q

\* [v] * n ; an n <= 0 gives the empty list
Repeat(v, n) == [i \in 1..Max(n, 0) |-> v]

\* the words of the corpus, and vocab_size = len(word_dict)
Words(tl) == UNION {{tl[i][j] : j \in 1..Len(tl[i])} : i \in 1..Len(tl)}
vocab_size == 4 + Cardinality(Words(token_list))

\* line 167
InputIds(tokens_a, tokens_b) == <<CLS>> \o tokens_a \o <<SEP>> \o tokens_b \o <<SEP>>

\* line 168
SegmentIds(tokens_a, tokens_b) ==
    Repeat(0, 1 + Len(tokens_a) + 1) \o Repeat(1, Len(tokens_b) + 1)

\* line 171
NPred(input_ids) == Min(max_pred, Max(1, Round15(Len(input_ids))))

\* lines 172-173: the Python positions that hold neither [CLS] nor [SEP]
CandMaskedPos(input_ids) ==
    {p \in 0..(Len(input_ids) - 1) : input_ids[p + 1] # CLS /\ input_ids[p + 1] # SEP}

\* lines 174, 176: shuffle(cand_maked_pos) then cand_maked_pos[:n_pred] is any
\* ordering of any min(n_pred, len(cand)) distinct candidates
Selections(input_ids) ==
    LET cand == CandMaskedPos(input_ids)
        k == Min(NPred(input_ids), Cardinality(cand))
    IN  {s \in [1..k -> cand] : \A i, j \in 1..k : i < j => s[i] # s[j]}

\* lines 179-183: what one selected position is overwritten with
\*   "mask": random() < 0.8, "random": the elif branch with index drawn by
\*   randint(0, vocab_size - 1), "keep": neither branch
Draws == {[kind |-> "mask", index |-> 0], [kind |-> "keep", index |-> 0]}
            \cup {[kind |-> "random", index |-> i] : i \in 0..(vocab_size - 1)}

\* word_dict[number_dict[index]] = index: number_dict enumerates word_dict in
\* insertion order and word_dict's values are 0, 1, 2, ... in that order
Overwrite(old, d) ==
    IF d.kind = "mask" THEN MASK
    ELSE IF d.kind = "random" THEN d.index
    ELSE old

\* lines 176-183: input_ids after the masking loop
Corrupt(input_ids, sel, draws) ==
    [q \in 1..Len(input_ids) |->
        IF \E i \in 1..Len(sel) : sel[i] = q - 1
        THEN Overwrite(input_ids[q], draws[CHOOSE i \in 1..Len(sel) : sel[i] = q - 1])
        ELSE input_ids[q]]

\* lines 186-188: extend with [0] * (maxlen - len)
ZeroPad(s) == s \o Repeat(0, maxlen - Len(s))

\* lines 191-194: extend with [0] * (max_pred - n_pred) when max_pred > n_pred
PadMasked(s, n_pred) ==
    IF max_pred > n_pred THEN s \o Repeat(0, max_pred - n_pred) ELSE s

\* lines 166-194: the tuple one iteration builds, without its label
MakeTuple(a, b, sel, draws) ==
    LET tokens_a == token_list[a + 1]
        tokens_b == token_list[b + 1]
        ids == InputIds(tokens_a, tokens_b)
        n_pred == NPred(ids)
    IN  [input_ids |-> ZeroPad(Corrupt(ids, sel, draws)),
         segment_ids |-> ZeroPad(SegmentIds(tokens_a, tokens_b)),
         masked_tokens |-> PadMasked([i \in 1..Len(sel) |-> ids[sel[i] + 1]], n_pred),
         masked_pos |-> PadMasked(sel, n_pred)]

\* lines 165-194: the tuples an iteration can build for the pair (a, b), over
\* the outcomes of shuffle, random and randint
Tuples(a, b) ==
    UNION {{MakeTuple(a, b, sel, draws) : draws \in [1..Len(sel) -> Draws]} :
              sel \in Selections(InputIds(token_list[a + 1], token_list[b + 1]))}

\* line 196 / 199: tokens_a_index + 1 == tokens_b_index
IsNextPair(a, b) == a + 1 = b

\* the comparison written <= instead of <
BelowHalfInclusive(n) == 2 * n <= batch_size

\* line 196 / 199: positive < batch_size/2 (true division)
BelowHalf(n) == 2 * n < batch_size

\* the loop condition with the division by 2 left out
LoopConditionNoHalf == positive # batch_size \/ negative # batch_size

\* line 164: positive != batch_size/2 or negative != batch_size/2
LoopCondition == 2 * positive # batch_size \/ 2 * negative # batch_size

\* lines 164-201: one iteration of the while loop with the pair (a, b) drawn
\* by randrange(len(sentences)) at line 165
MakeBatchIter(a, b) ==
    /\ mb_pc = "loop"
    /\ LoopCondition
    /\ a < Len(token_list) /\ b < Len(token_list)
    /\ tokens_a_index' = a
    /\ tokens_b_index' = b
    /\ IF IsNextPair(a, b) /\ BelowHalf(positive)
       THEN /\ \E t \in Tuples(a, b) : batch' = Append(batch, t @@ [isNext |-> TRUE])
            /\ positive' = positive + 1
            /\ UNCHANGED negative
       ELSE IF ~IsNextPair(a, b) /\ BelowHalf(negative)
       THEN /\ \E t \in Tuples(a, b) : batch' = Append(batch, t @@ [isNext |-> FALSE])
            /\ negative' = negative + 1
            /\ UNCHANGED positive
       ELSE UNCHANGED <<batch, positive, negative>>
    /\ UNCHANGED <<cfgvars, mb_pc, paramvars, fwdvars, call, pmvars, sdvars>>

\* lines 164, 202: the loop condition is false and the batch is returned
MakeBatchReturn ==
    /\ mb_pc = "loop"
    /\ ~LoopCondition
    /\ mb_pc' = "returned"
    /\ UNCHANGED <<cfgvars, batch, positive, negative, tokens_a_index,
                   tokens_b_index, paramvars, fwdvars, call, pmvars, sdvars>>

(***************************************************************************)
(* Tensors of the model are described by their shapes (sequences of        *)
(* dimensions); a call ends in a value or in a raised exception.           *)
(***************************************************************************)
Ok(shape) == [kind |-> "ok", value |-> shape]
Raised(exc, line) == [kind |-> "raised", exc |-> exc, line |-> line]
None == [kind |-> "none"]

\* broadcasting of two dimensions: equal, or one of them 1; 0 when they do
\* not broadcast
Broadcast(m, n) == IF m = n THEN m ELSE IF m = 1 THEN n ELSE IF n = 1 THEN m ELSE 0

\* lines 46-52, EmbeddingLayer.forward(x, seg) on x of shape (Bx, Lx) and seg
\* of shape (Bs, Ls), with ids inside their tables: position_embedding has
\* maxlen rows; the three lookups have shapes (Bx, Lx, D), (Bx, Lx, D),
\* (Bs, Ls, D) and are added with broadcasting; LayerNorm keeps the shape
EmbeddingForward(x, seg) ==
    IF x[2] > maxlen THEN Raised("IndexError", 51)
    ELSE IF Broadcast(x[1], seg[1]) = 0 \/ Broadcast(x[2], seg[2]) = 0
         THEN Raised("RuntimeError", 51)
    ELSE Ok(<<Broadcast(x[1], seg[1]), Broadcast(x[2], seg[2]), d_model>>)

\* line 226: the name get_attn_pad_mask is bound nowhere in the module (the
\* builder of line 63 is get_attention_pad_mask)
PadMaskCall == Raised("NameError", 226)

\* lines 84-87 and 228: forward is declared without self, so the bound call
\* layer(output, mask) passes three positional arguments to two parameters
EncoderLayerForward(enc_inputs, enc_self_attn_mask) == Raised("TypeError", 84)

\* line 139: return score, context, attn; the name score is bound nowhere
ScaledDotProductReturn == Raised("NameError", 139)

\* lines 99-104, MultiHeadAttention.__init__: three nn.Linear of widths
\* d_model -> d_k * n_heads (d_v * n_heads); no condition is tested
MultiHeadAttentionInit ==
    Ok(<<<<d_model, d_k * n_heads>>, <<d_model, d_k * n_heads>>, <<d_model, d_v * n_heads>>>>)

\* lines 106-122, MultiHeadAttention.forward on Q, K, V of shapes (B, L, W)
\* and attn_mask of shape (B, Lq, Lk).  Each projection needs W = d_model
\* (lines 110-112); view(batch_size, -1, n_heads, d_k) takes batch_size from Q
\* (line 108), so K and V are reshaped to Q's batch whenever it divides their
\* B * L, and fail otherwise.  masked_fill_ (line 136) needs a mask that
\* broadcasts to the scores, the second matmul (line 138) as many values as
\* keys; the call of line 118 then ends at line 139, before lines 119-122.
MultiHeadAttentionForward(Q, K, V, attn_mask) ==
    IF Q[3] # d_model
    THEN Raised("RuntimeError", 110)
    ELSE IF K[3] # d_model \/ (K[1] * K[2]) % Q[1] # 0
    THEN Raised("RuntimeError", 111)
    ELSE IF V[3] # d_model \/ (V[1] * V[2]) % Q[1] # 0
    THEN Raised("RuntimeError", 112)
    ELSE LET len_q == Q[2]
             len_k == (K[1] * K[2]) \div Q[1]
             len_v == (V[1] * V[2]) \div Q[1]
         IN  IF \/ Broadcast(attn_mask[1], Q[1]) # Q[1]
                \/ Broadcast(attn_mask[2], len_q) # len_q
                \/ Broadcast(attn_mask[3], len_k) # len_k
             THEN Raised("RuntimeError", 136)
             ELSE IF len_v # len_k
             THEN Raised("RuntimeError", 138)
             ELSE ScaledDotProductReturn

CallDone ==
    /\ call # None
    /\ call' = None
    /\ UNCHANGED <<cfgvars, mbvars, paramvars, fwdvars, pmvars, sdvars>>

(***************************************************************************)
(* Parameter storage.  A parameter is a cell of store; a name of the model *)
(* holds the cell's address.  A cell's content stands for the whole        *)
(* tensor.                                                                 *)
(***************************************************************************)
EmbedCell == 1
LinearCell == 2
Cells == {EmbedCell, LinearCell}
Values == {0, 1}

\* line 221 left out: the decoder keeps the weight nn.Linear allocated
OwnDecoderWeight(embed_weight, own_weight) == own_weight

\* line 221: self.decoder.weight = embed_weight binds the decoder's weight to
\* the Parameter object the embedding holds
SharedDecoderWeight(embed_weight, own_weight) == embed_weight

\* lines 207-222, BERT.__init__: nn.Embedding (line 41) and nn.Linear
\* (line 220) each allocate a randomly initialised weight
BertInit ==
    /\ ~model_built
    /\ model_built' = TRUE
    /\ store' \in [Cells -> Values]
    /\ token_embedding_weight' = EmbedCell
    /\ decoder_weight' = SharedDecoderWeight(EmbedCell, LinearCell)
    /\ UNCHANGED <<epoch, cfgvars, mbvars, fwdvars, call, pmvars, sdvars>>

\* line 280: model.parameters() yields each Parameter object once
Parameters == {token_embedding_weight, decoder_weight}

\* lines 285 and 295, optimizer.step() of one epoch: every parameter is
\* updated in place.  The script reaches line 295 only after the forward pass
\* and loss.backward() of lines 287-294; here it may fire whenever no forward
\* pass is running, which only adds behaviours.
OptimizerStep ==
    /\ model_built
    /\ fwd_pc \in {"idle", "done"}
    /\ epoch < MaxEpochs
    /\ epoch' = epoch + 1
    /\ \E new \in [Parameters -> Values] :
          store' = [c \in Cells |-> IF c \in Parameters THEN new[c] ELSE store[c]]
    /\ UNCHANGED <<model_built, token_embedding_weight, decoder_weight,
                   cfgvars, mbvars, fwdvars, call, pmvars, sdvars>>

\* shapes of the arguments of a call
Shapes2 == {<<b, l>> : b \in 1..MaxB, l \in 1..MaxL}
Shapes3 == {<<b, l, w>> : b \in 1..MaxB, l \in 1..MaxL, w \in 1..MaxModel}

\* the stored parameters a forward pass reads
ParamValues == [c \in Parameters |-> store[c]]

\* lines 283 and 287, model(input_ids, segment_ids, masked_pos) on the
\* LongTensors of a batch of B tuples of make_batch, and line 225:
\* output = self.embedding(input_ids, segment_ids)
ForwardEmbed(input_ids, segment_ids, masked_pos) ==
    /\ model_built
    /\ fwd_pc \in {"idle", "done"}
    /\ fwd_in' = [input_ids |-> input_ids, segment_ids |-> segment_ids,
                  masked_pos |-> masked_pos, params |-> ParamValues]
    /\ fwd_output' = EmbeddingForward(input_ids, segment_ids)
    /\ fwd_pc' = "embedded"
    /\ fwd_result' = None
    /\ UNCHANGED <<last_run, prev_run, cfgvars, mbvars, paramvars, call, pmvars, sdvars>>

\* the outcome of the statement after line 225: the exception of line 225 if
\* it raised, else that of line 226
AfterEmbed(output) == IF output.kind = "raised" THEN output ELSE PadMaskCall

\* line 226, and the end of the pass
ForwardMask ==
    /\ fwd_pc = "embedded"
    /\ fwd_result' = AfterEmbed(fwd_output)
    /\ fwd_pc' = "done"
    /\ last_run' = [input |-> fwd_in, result |-> AfterEmbed(fwd_output)]
    /\ prev_run' = last_run
    /\ UNCHANGED <<fwd_in, fwd_output, cfgvars, mbvars, paramvars, call, pmvars, sdvars>>

\* direct calls of the components; a caller makes one call at a time and
\* drops the outcome before the next
CallEmbedding ==
    /\ call = None
    /\ \E x, seg \in Shapes2 :
          call' = [op |-> "EmbeddingLayer.forward", args |-> <<x, seg>>,
                   result |-> EmbeddingForward(x, seg)]
    /\ UNCHANGED <<cfgvars, mbvars, paramvars, fwdvars, pmvars, sdvars>>

CallEncoderLayer ==
    /\ call = None
    /\ \E x, mask \in Shapes3 :
          call' = [op |-> "EncoderLayer.forward", args |-> <<x, mask>>,
                   result |-> EncoderLayerForward(x, mask)]
    /\ UNCHANGED <<cfgvars, mbvars, paramvars, fwdvars, pmvars, sdvars>>

CallMultiHeadInit ==
    /\ call = None
    /\ call' = [op |-> "MultiHeadAttention.__init__", args |-> <<>>,
                result |-> MultiHeadAttentionInit]
    /\ UNCHANGED <<cfgvars, mbvars, paramvars, fwdvars, pmvars, sdvars>>

CallMultiHead ==
    /\ call = None
    /\ \E Q, K, V, mask \in Shapes3 :
          call' = [op |-> "MultiHeadAttention.forward", args |-> <<Q, K, V, mask>>,
                   result |-> MultiHeadAttentionForward(Q, K, V, mask)]
    /\ UNCHANGED <<cfgvars, mbvars, paramvars, fwdvars, pmvars, sdvars>>

(***************************************************************************)
(* get_attention_pad_mask on token-id tensors given as sequences (batch)   *)
(* of sequences (positions).                                               *)
(***************************************************************************)
\* the mask taken from the query tokens instead of the key tokens
PadAttnMaskFromQuery(seq_q, seq_k) ==
    [b \in 1..Len(seq_q) |-> [i \in 1..Len(seq_q[1]) |->
        [j \in 1..Len(seq_k[1]) |-> seq_q[b][i] = 0]]]

\* lines 63-67: seq_k.data.eq(0).unsqueeze(1) has shape (Bk, 1, Lk) and is
\* expanded to (Bk, Lq, Lk); batch_size is rebound by line 65
PadAttnMask(seq_q, seq_k) ==
    LET len_q == Len(seq_q[1])
        len_k == Len(seq_k[1])
        eq0 == [b \in 1..Len(seq_k) |-> [j \in 1..len_k |-> seq_k[b][j] = 0]]
    IN  [b \in 1..Len(seq_k) |-> [i \in 1..len_q |-> eq0[b]]]

TokenTensors ==
    UNION {[1..b -> [1..l -> {PAD, CLS}]] : b \in 1..MaxB, l \in 1..MaxL}

GetAttentionPadMask ==
    /\ pm_out = <<>>
    /\ \E seq_q, seq_k \in TokenTensors :
          /\ pm_seq_q' = seq_q
          /\ pm_seq_k' = seq_k
          /\ pm_out' = PadAttnMask(seq_q, seq_k)
    /\ UNCHANGED <<cfgvars, mbvars, paramvars, fwdvars, call, sdvars>>

\* the caller drops the mask
PadMaskDone ==
    /\ pm_out # <<>>
    /\ pm_seq_q' = <<>> /\ pm_seq_k' = <<>> /\ pm_out' = <<>>
    /\ UNCHANGED <<cfgvars, mbvars, paramvars, fwdvars, call, sdvars>>

(***************************************************************************)
(* ScaledDotProductAttention.forward on one batch element and one head:    *)
(* Q is Lq x d_k, K is Lk x d_k, V is Lk x d_v, attn_mask is Lq x Lk.      *)
(* Weights are fixed-point numbers in units of 1/One.                      *)
(***************************************************************************)
One == 1000
\* the fill value of line 136, -1e9
Sentinel == -1000000000

\* np.sqrt(n) for a square n
Sqrt(n) == CHOOSE r \in 0..n : r * r = n

Dot(u, v) == LET RECURSIVE S(_)
                 S(i) == IF i = 0 THEN 0 ELSE u[i] * v[i] + S(i - 1)
             IN  S(Len(u))

\* line 135: matmul(Q, K^T) / np.sqrt(d_k), d_k the hyperparameter
Scores(Q, K) ==
    [i \in 1..Len(Q) |-> [j \in 1..Len(K) |-> Dot(Q[i], K[j]) \div Sqrt(d_k)]]

\* line 136: masked_fill_(attn_mask, -1e9)
MaskedFill(sc, mask) ==
    [i \in 1..Len(sc) |-> [j \in 1..Len(sc[i]) |->
        IF mask[i][j] THEN Sentinel ELSE sc[i][j]]]

\* exp(x) for x <= 0 in units of 1/One; exp underflows to 0 far below any
\* difference of two scores and far above the sentinel
Exp(x) == IF x = 0 THEN 1000
          ELSE IF x = -1 THEN 368
          ELSE IF x = -2 THEN 135
          ELSE IF x = -3 THEN 50
          ELSE IF x = -4 THEN 18
          ELSE IF x = -5 THEN 7
          ELSE IF x = -6 THEN 2
          ELSE IF x = -7 THEN 1
          ELSE 0

RowMax(row) == CHOOSE m \in {row[j] : j \in 1..Len(row)} :
                   \A j \in 1..Len(row) : row[j] <= m

RowSum(row) == LET RECURSIVE S(_)
                   S(j) == IF j = 0 THEN 0 ELSE row[j] + S(j - 1)
               IN  S(Len(row))

\* line 137: softmax over the key axis, exp(x - max) / sum
Softmax(sc) ==
    [i \in 1..Len(sc) |->
        LET e == [j \in 1..Len(sc[i]) |-> Exp(sc[i][j] - RowMax(sc[i]))]
        IN  [j \in 1..Len(sc[i]) |-> (One * e[j]) \div RowSum(e)]]

\* line 138: matmul(attn, V), in units of 1/One
Context(at, V) ==
    [i \in 1..Len(at) |-> [w \in 1..Len(V[1]) |->
        RowSum([j \in 1..Len(V) |-> at[i][j] * V[j][w]])]]

\* the matrices of l rows of width w with entries in vals
Matrices(vals, l, w) == [1..l -> [1..w -> vals]]

\* the call, and line 135
SdpaScores ==
    /\ sd_pc = "idle"
    /\ \E lq \in 1..MaxLq, lk \in 1..MaxLk :
       \E Q \in Matrices({-1, 0, 1}, lq, d_k),
          K \in Matrices({-1, 0, 1}, lk, d_k),
          V \in Matrices({0, 1}, lk, d_v),
          attn_mask \in [1..lq -> [1..lk -> BOOLEAN]] :
          /\ sd_Q' = Q /\ sd_K' = K /\ sd_V' = V /\ sd_mask' = attn_mask
          /\ scores' = Scores(Q, K)
    /\ attn' = <<>>
    /\ context' = <<>>
    /\ sd_result' = None
    /\ sd_pc' = "scores"
    /\ UNCHANGED <<cfgvars, mbvars, paramvars, fwdvars, call, pmvars>>

\* line 136
SdpaMaskedFill ==
    /\ sd_pc = "scores"
    /\ scores' = MaskedFill(scores, sd_mask)
    /\ sd_pc' = "filled"
    /\ UNCHANGED <<sd_Q, sd_K, sd_V, sd_mask, attn, context, sd_result,
                   cfgvars, mbvars, paramvars, fwdvars, call, pmvars>>

\* line 137
SdpaSoftmax ==
    /\ sd_pc = "filled"
    /\ attn' = Softmax(scores)
    /\ sd_pc' = "softmax"
    /\ UNCHANGED <<sd_Q, sd_K, sd_V, sd_mask, scores, context, sd_result,
                   cfgvars, mbvars, paramvars, fwdvars, call, pmvars>>

\* line 138
SdpaContext ==
    /\ sd_pc = "softmax"
    /\ context' = Context(attn, sd_V)
    /\ sd_pc' = "context"
    /\ UNCHANGED <<sd_Q, sd_K, sd_V, sd_mask, scores, attn, sd_result,
                   cfgvars, mbvars, paramvars, fwdvars, call, pmvars>>

\* line 139
SdpaReturn ==
    /\ sd_pc = "context"
    /\ sd_result' = ScaledDotProductReturn
    /\ sd_pc' = "done"
    /\ UNCHANGED <<sd_Q, sd_K, sd_V, sd_mask, scores, attn, context,
                   cfgvars, mbvars, paramvars, fwdvars, call, pmvars>>

\* the exception reaches the caller and the locals are dropped
SdpaDone ==
    /\ sd_pc = "done"
    /\ sd_pc' = "idle"
    /\ sd_Q' = <<>> /\ sd_K' = <<>> /\ sd_V' = <<>> /\ sd_mask' = <<>>
    /\ scores' = <<>> /\ attn' = <<>> /\ context' = <<>>
    /\ sd_result' = None
    /\ UNCHANGED <<cfgvars, mbvars, paramvars, fwdvars, call, pmvars>>

\* corpora: token_list as built at lines 262-273 (word ids start at 4 and are
\* contiguous); the number of sentences and their lengths are bounded
Corpora ==
    { <<<<4>>>>,
      <<<<>>, <<>>>>,
      <<<<4>>, <<>>>>,
      <<<<4>>, <<>>, <<4, 5>>>> }

CorpusTokens(tl) == LET RECURSIVE Sum(_)
                        Sum(i) == IF i = 0 THEN 0 ELSE Len(tl[i]) + Sum(i - 1)
                    IN  Sum(Len(tl))

\* the hyperparameters: line 251 sets d_k = d_v; the script's widths satisfy
\* n_heads * d_k = d_model (12 * 64 = 768)
HeadInit(consistent) ==
    /\ n_heads \in 1..MaxHeads
    /\ d_k \in 1..MaxWidth
    /\ d_v = d_k
    /\ d_model \in IF consistent THEN {n_heads * d_k} ELSE 1..MaxModel

HeadFixed == n_heads = 1 /\ d_k = 1 /\ d_v = 1 /\ d_model = 1

CorpusFixed ==
    /\ batch_size = 2
    /\ token_list = <<<<4>>, <<>>, <<4, 5>>>>

\* line 163, with the configuration of lines 244-273
MBInit(sizes, work) ==
    /\ batch_size \in sizes
    /\ max_pred \in 1..MaxPred
    /\ token_list \in Corpora
    /\ Len(token_list) <= MaxSentences
    /\ (batch_size * CorpusTokens(token_list)) * (batch_size * CorpusTokens(token_list))
          <= work
    /\ mb_pc = "loop"
    /\ batch = <<>>
    /\ positive = 0
    /\ negative = 0
    /\ tokens_a_index = 0
    /\ tokens_b_index = 0

\* make_batch not called
MBIdle ==
    /\ mb_pc = "idle"
    /\ batch = <<>>
    /\ positive = 0
    /\ negative = 0
    /\ tokens_a_index = 0
    /\ tokens_b_index = 0

\* no model constructed
ParamIdle ==
    /\ model_built = FALSE
    /\ store = [c \in Cells |-> 0]
    /\ token_embedding_weight = 0
    /\ decoder_weight = 0
    /\ epoch = 0

FwdIdle ==
    /\ fwd_pc = "idle"
    /\ fwd_in = None
    /\ fwd_output = None
    /\ fwd_result = None
    /\ last_run = None
    /\ prev_run = None

PmIdle == pm_seq_q = <<>> /\ pm_seq_k = <<>> /\ pm_out = <<>>

SdIdle ==
    /\ sd_pc = "idle"
    /\ sd_Q = <<>> /\ sd_K = <<>> /\ sd_V = <<>> /\ sd_mask = <<>>
    /\ scores = <<>> /\ attn = <<>> /\ context = <<>>
    /\ sd_result = None

EvenSizes == {n \in 1..MaxBatch : n % 2 = 0}

(***************************************************************************)
(* make_batch with an even batch_size, as line 245 sets it                 *)
(***************************************************************************)
BatchInit ==
    /\ MBInit(EvenSizes, MaxWork)
    /\ HeadFixed /\ ParamIdle /\ FwdIdle /\ call = None /\ PmIdle /\ SdIdle

BatchNext ==
    \/ \E a, b \in 0..(MaxSentences - 1) : MakeBatchIter(a, b)
    \/ MakeBatchReturn

BatchSpec == BatchInit /\ [][BatchNext]_vars

(***************************************************************************)
(* make_batch with any batch_size >= 1, under fair sampling: randrange     *)
(* draws every pair of sentence indices again and again                    *)
(***************************************************************************)
LiveInit ==
    /\ MBInit(1..MaxBatch, MaxLiveWork)
    /\ HeadFixed /\ ParamIdle /\ FwdIdle /\ call = None /\ PmIdle /\ SdIdle

LiveSpec ==
    /\ LiveInit
    /\ [][BatchNext]_vars
    /\ \A a, b \in 0..(MaxSentences - 1) : WF_vars(MakeBatchIter(a, b))
    /\ WF_vars(MakeBatchReturn)

(***************************************************************************)
(* construction of BERT, forward passes and optimizer steps                *)
(***************************************************************************)
Init ==
    /\ CorpusFixed /\ max_pred \in 1..MaxPred /\ HeadInit(TRUE)
    /\ MBIdle /\ ParamIdle /\ FwdIdle /\ call = None /\ PmIdle /\ SdIdle

Next ==
    \/ BertInit
    \/ OptimizerStep
    \/ \E B \in 1..MaxB, L \in 1..MaxL :
          ForwardEmbed(<<B, L>>, <<B, L>>, <<B, max_pred>>)
    \/ ForwardMask

Spec == Init /\ [][Next]_vars

(***************************************************************************)
(* direct calls of the components, under any hyperparameters               *)
(***************************************************************************)
CompInit ==
    /\ CorpusFixed /\ max_pred = 1 /\ HeadInit(FALSE)
    /\ MBIdle /\ ParamIdle /\ FwdIdle /\ call = None /\ PmIdle /\ SdIdle

CompNext ==
    \/ CallEmbedding
    \/ CallEncoderLayer
    \/ CallMultiHeadInit
    \/ CallMultiHead
    \/ CallDone

CompSpec == CompInit /\ [][CompNext]_vars

(***************************************************************************)
(* the pad-mask builder                                                    *)
(***************************************************************************)
PadInit ==
    /\ CorpusFixed /\ max_pred = 1 /\ HeadFixed
    /\ MBIdle /\ ParamIdle /\ FwdIdle /\ call = None /\ PmIdle /\ SdIdle

PadNext ==
    \/ GetAttentionPadMask
    \/ PadMaskDone

PadSpec == PadInit /\ [][PadNext]_vars

(***************************************************************************)
(* scaled dot-product attention                                            *)
(***************************************************************************)
SdpaInit == PadInit

SdpaNext ==
    \/ SdpaScores
    \/ SdpaMaskedFill
    \/ SdpaSoftmax
    \/ SdpaContext
    \/ SdpaReturn
    \/ SdpaDone

SdpaSpec == SdpaInit /\ [][SdpaNext]_vars

(***************************************************************************)
(* Properties                                                              *)
(***************************************************************************)

\* C1: every forward pass on well-formed fixed-shape inputs (token and
\* segment ids of shape B x L, masked positions of shape B x max_pred) ends
\* by returning the pair of reconstruction logits of shape
\* B x max_pred x vocab_size and classification logits of shape B x 2, never
\* in an error.
C1_ForwardReturnsLogits ==
    fwd_pc = "done" =>
        fwd_result = Ok(<<<<fwd_in.input_ids[1], max_pred, vocab_size>>,
                          <<fwd_in.input_ids[1], 2>>>>)

\* C2: two forward passes with identical stored parameters and identical
\* inputs yield identical outputs.
C2_SameInputsSameOutputs ==
    (last_run # None /\ prev_run # None /\ last_run.input = prev_run.input) =>
        /\ last_run.result.kind = "ok"
        /\ prev_run.result.kind = "ok"
        /\ last_run.result = prev_run.result

\* C3: once the model is constructed, after any forward passes and optimizer
\* steps, the decoder's weight and the token embedding table are the same
\* storage and hold the same contents.
C3_DecoderSharesEmbedding ==
    model_built =>
        /\ decoder_weight = token_embedding_weight
        /\ store[decoder_weight] = store[token_embedding_weight]

\* C3 witness: an optimizer step has changed the embedding table since the
\* last finished forward pass read it.
C3_Witness ==
    /\ model_built
    /\ epoch >= 1
    /\ last_run # None
    /\ store[token_embedding_weight] # last_run.input.params[token_embedding_weight]

\* C4: for query and key sequences of one batch, the pad mask has shape
\* batch x Lq x Lk and its entry (b, i, j) is true exactly when key token j of
\* sequence b is the pad id, whatever i and the query tokens are.
C4_PadMaskMarksPadKeys ==
    (pm_out # <<>> /\ Len(pm_seq_q) = Len(pm_seq_k)) =>
        /\ Len(pm_out) = Len(pm_seq_k)
        /\ \A b \in 1..Len(pm_seq_k) :
              /\ Len(pm_out[b]) = Len(pm_seq_q[b])
              /\ \A i \in 1..Len(pm_seq_q[b]) :
                    /\ Len(pm_out[b][i]) = Len(pm_seq_k[b])
                    /\ \A j \in 1..Len(pm_seq_k[b]) :
                          pm_out[b][i][j] = (pm_seq_k[b][j] = PAD)

\* C4 witness: a mask for Lq # Lk whose key sequence holds a pad and a
\* non-pad token and whose first query token is not the first key token.
C4_Witness ==
    /\ pm_out # <<>>
    /\ Len(pm_seq_q) = Len(pm_seq_k)
    /\ Len(pm_seq_q[1]) # Len(pm_seq_k[1])
    /\ \E j \in 1..Len(pm_seq_k[1]) : pm_seq_k[1][j] = PAD
    /\ \E j \in 1..Len(pm_seq_k[1]) : pm_seq_k[1][j] # PAD
    /\ pm_seq_q[1][1] # pm_seq_k[1][1]

\* C5: scaled dot-product attention returns attention weights, every weight
\* is >= 0, every row sums to 1 within tolerance (one unit per key) and
\* every masked key position has weight about 0.
C5_ReturnsNormalizedWeights ==
    sd_pc = "done" =>
        /\ sd_result.kind = "ok"
        /\ \A i \in 1..Len(attn) :
              /\ RowSum(attn[i]) >= One - Len(attn[i])
              /\ RowSum(attn[i]) <= One + Len(attn[i])
              /\ \A j \in 1..Len(attn[i]) :
                    /\ attn[i][j] >= 0
                    /\ sd_mask[i][j] => attn[i][j] <= 1

\* C6: a shape mismatch fails at once: an embedding call whose token and
\* segment sequences differ in length raises, and so does constructing or
\* running multi-head attention when n_heads * d_k or n_heads * d_v differs
\* from d_model.
C6_ShapeMismatchRaises ==
    call # None =>
        /\ (call.op = "EmbeddingLayer.forward" /\ call.args[1][2] # call.args[2][2])
              => call.result.kind = "raised"
        /\ (/\ call.op \in {"MultiHeadAttention.__init__", "MultiHeadAttention.forward"}
            /\ (n_heads * d_k # d_model \/ n_heads * d_v # d_model))
              => call.result.kind = "raised"

\* a query row all of whose key positions are masked
AllMaskedRow(mask) == \E i \in 1..Len(mask) : \A j \in 1..Len(mask[i]) : mask[i][j]

\* C7: a call whose mask has a row with every key position masked is handled
\* apart: it does not go through the sentinel fill and the softmax.
C7_AllMaskedRowHandled ==
    AllMaskedRow(sd_mask) => sd_pc \notin {"filled", "softmax", "context"}

\* C8: every tuple of the batch has input_ids and segment_ids of length maxlen
\* and masked_tokens and masked_pos of length max_pred.
C8_FixedShapeTuples ==
    \A k \in 1..Len(batch) :
        /\ Len(batch[k].input_ids) = maxlen
        /\ Len(batch[k].segment_ids) = maxlen
        /\ Len(batch[k].masked_tokens) = max_pred
        /\ Len(batch[k].masked_pos) = max_pred

Labelled(l) == Cardinality({k \in 1..Len(batch) : batch[k].isNext = l})

\* C9: the counts of accepted IsNext and NotNext examples never exceed
\* batch_size/2 and count the tuples so labelled; a tuple is appended with
\* label True exactly when tokens_b_index = tokens_a_index + 1; and the
\* returned batch holds batch_size tuples, half of them labelled True and
\* half False.
C9_LabelBalanced ==
    /\ [](/\ 2 * positive <= batch_size
          /\ 2 * negative <= batch_size
          /\ positive = Labelled(TRUE)
          /\ negative = Labelled(FALSE)
          /\ mb_pc = "returned" =>
                /\ Len(batch) = batch_size
                /\ 2 * Labelled(TRUE) = batch_size
                /\ 2 * Labelled(FALSE) = batch_size)
    /\ [][Len(batch') > Len(batch) =>
            batch'[Len(batch')].isNext = (tokens_a_index' + 1 = tokens_b_index')]_vars

\* C9 witness: a returned batch with both labels.
C9_Witness ==
    /\ mb_pc = "returned"
    /\ Labelled(TRUE) >= 1
    /\ Labelled(FALSE) >= 1

\* C10 as stated: for every batch_size >= 1 and every corpus of at least one
\* sentence, make_batch eventually returns under fair sampling.
C10_AlwaysReturns == <>(mb_pc = "returned")

\* C10 amended: for every even batch_size and every corpus of at least two
\* sentences, make_batch eventually returns under fair sampling.
C10_EvenBatchReturns ==
    (batch_size % 2 = 0 /\ Len(token_list) >= 2) => <>(mb_pc = "returned")

\* C10 witness: make_batch has returned for an even batch_size and a corpus
\* of at least two sentences.
C10_Witness ==
    /\ mb_pc = "returned"
    /\ batch_size % 2 = 0
    /\ Len(token_list) >= 2
    /\ Len(batch) = batch_size

====
